---------------------------- MODULE Spec2Model ----------------------------
(***************************************************************************)
(* Model of the Carter navigation environment (carter_env.py): the LIDAR   *)
(* pre-processing, the temporal pooling buffer kept by CarterEnv, the goal *)
(* projection, the observation assembled by _get_observations and the     *)
(* differential drive solver.  Spec is the environment driven by ticks,    *)
(* resets and physics steps; SpecScan, SpecGoal and SpecDrive apply        *)
(* raw_lidar_process, the goal stage and the drive handlers to inputs      *)
(* drawn from bounded sets.                                                *)
(*                                                                         *)
(* Tensors are modelled by their contents: a batch is a sequence indexed   *)
(* by instance (instance j of the model is index j-1 of the code), a       *)
(* history row is the sequence of its frames, a frame is a function on     *)
(* 0..ScanLen-1.  torch.Tensor([]) (shape (0,)) is <<>>, and the           *)
(* constructor's torch.Tensor([[]]) (shape (1,0)) is << <<>> >>: one row   *)
(* that holds no frame.  Floating point numbers are modelled as exact      *)
(* rationals <<numerator, denominator>>.                                   *)
(***************************************************************************)
EXTENDS Integers, Sequences, FiniteSets, TLC

(***************************************************************************)
(* Program constants.                                                      *)
(***************************************************************************)
NUM_TP == 10
\* lidar_avg.repeat(1, 4)
Copies == 4
s_min == 0
s_max == 30
g_min == -2
g_max == 2
\* lookahead = torch.Tensor([2.0])
LookaheadRadius == 2
\* z band of raw_lidar_process in units of 0.01
z_min == -2
z_max == 2
\* the two rows of lidar_to_robot_quat / lidar_to_robot_pos
NumVizFrames == 2
\* goal = torch.Tensor([[-5.0, -2.0], [-10.0, -2.0]]): the value the module-level
\* tensor `goal` is created with (the tensor itself is the state variable goal)
goal_initial == << <<-5, -2>>, <<-10, -2>> >>
\* differential drive: motor_scale 0.5, joint_base 42, base_width 0.4132,
\* system_gain 1.25, as exact rationals
motor_scale == <<1, 2>>
joint_base == 42
base_width == <<1033, 2500>>
system_gain == <<5, 4>>
\* action = torch.zeros(7)
NumJoints == 7
\* action[1] = pl, action[2] = pr
LeftSlot == 1
RightSlot == 2

(***************************************************************************)
(* Bounds of the model.  The source's sizes are given in the comments; the *)
(* model keeps their relations (ScanLen = NumBins * BinSize, and so on).   *)
(***************************************************************************)
\* number of environment instances explored: 1..MaxEnvs
MaxEnvs == 4
\* bins per frame (80 in the source)
NumBins == 2
\* samples per bin (9 in the source)
BinSize == 2
\* cutoff - num_samples (970 - 720 in the source)
CutoffSlack == 1
\* width of the pedestrian block (12800 in the source)
PedWidth == 2
\* denominator of the fixed-point square root used by subgoal_get
FP == 100
\* number of different contents a valid sensor reading cycles through
NumReadings == 3

\* num_samples (720 in the source)
ScanLen == NumBins * BinSize
\* filtered_lidar_data[mask][0:970]
Cutoff == ScanLen + CutoffSlack
\* lidar_avg = torch.zeros((20, 80)): 2*NUM_TP rows
GridRows == 2 * NUM_TP
\* lidar_avg.reshape(1600)
GridSize == GridRows * NumBins
\* lidar_avg_map.reshape(6400)
FeatWidth == Copies * GridSize
\* subgoal per instance
GoalWidth == 2
\* torch.zeros(self.num_envs, 19202) and cfg.num_observations
NumObservations == PedWidth + FeatWidth + GoalWidth

Envs(n) == 1..n

(***************************************************************************)
(* Exact rationals.                                                        *)
(***************************************************************************)
Rat(n, d) == <<n, d>>
RZero == Rat(0, 1)
RInt(n) == Rat(n, 1)
REq(a, b) == a[1] * b[2] = b[1] * a[2]
RLeq(a, b) == a[1] * b[2] <= b[1] * a[2]
RLt(a, b) == a[1] * b[2] < b[1] * a[2]
RECURSIVE Gcd(_, _)
Gcd(a, b) == IF b = 0 THEN a ELSE Gcd(b, a % b)
\* the fraction in lowest terms (d > 0)
Lowest(n, d) ==
    LET g == Gcd(IF n < 0 THEN -n ELSE n, d)
    IN  Rat(n \div g, d \div g)
RAdd(a, b) == Lowest(a[1] * b[2] + b[1] * a[2], a[2] * b[2])
RSub(a, b) == Lowest(a[1] * b[2] - b[1] * a[2], a[2] * b[2])
RMul(a, b) == Lowest(a[1] * b[1], a[2] * b[2])
\* a / b for b > 0
RDiv(a, b) == Lowest(a[1] * b[2], a[2] * b[1])

MinOf(S) == CHOOSE m \in S : \A x \in S : m <= x
RECURSIVE SumOver(_, _)
SumOver(f, S) ==
    IF S = {} THEN 0
    ELSE LET x == CHOOSE y \in S : TRUE IN f[x] + SumOver(f, S \ {x})

(***************************************************************************)
(* The sensor: what lidar.data holds on one tick, one raw scan per key     *)
(* (instance).  A reading is valid, or has an empty first scan, an empty   *)
(* last scan, or a first scan with no point in the scan plane.  The        *)
(* content of a valid reading changes from one valid reading to the next:  *)
(* it cycles through NumReadings contents, indexed by q.                   *)
(***************************************************************************)
ReadingKinds == {"valid", "first_empty", "last_empty", "off_plane"}

EmptyScan == [data |-> <<>>, distance |-> <<>>]

\* Cutoff + 1 points in the plane (every second point), interleaved with
\* points above it: more candidates than the cutoff keeps.
ScanA(q, j) ==
    [data     |-> [k \in 1..(2 * (Cutoff + 1)) |->
                      <<k, j, IF k % 2 = 0 THEN (k % 5) - 2 ELSE 7>>],
     distance |-> [k \in 1..(2 * (Cutoff + 1)) |-> (k * 5 + j * 7 + q * 3) % 31]]

\* ScanLen - 1 points, all in the plane: fewer candidates than num_samples,
\* with ranges beyond the 30-unit saturation bound.
ScanB(q, j) ==
    [data     |-> [k \in 1..(ScanLen - 1) |-> <<k, j, (k % 3) - 1>>],
     distance |-> [k \in 1..(ScanLen - 1) |-> 26 + ((k * 3 + j * 2 + q) % 9)]]

\* a non-empty raw scan with no point inside the z band
ScanOffPlane(j) ==
    [data     |-> [k \in 1..ScanLen |-> <<k, j, IF k % 2 = 0 THEN 3 ELSE -3>>],
     distance |-> [k \in 1..ScanLen |-> k + j]]

ValidScan(q, j) == IF q % 2 = 0 THEN ScanA(q, j) ELSE ScanB(q, j)

RawBatch(kind, q, n) ==
    [j \in Envs(n) |->
        CASE kind = "valid" -> ValidScan(q, j)
          [] kind = "first_empty" -> IF j = 1 THEN EmptyScan ELSE ValidScan(q, j)
          [] kind = "last_empty" -> IF j = n THEN EmptyScan ELSE ValidScan(q, j)
          [] OTHER -> IF j = 1 THEN ScanOffPlane(j) ELSE ValidScan(q, j)]

\* The raw scans raw_lidar_process is applied to on its own: scans of up to
\* MaxPoints points, each point inside the z band (edges included) or outside
\* it as the mask says.  A mask puts the first a points, and then every s-th
\* point, outside the band.  Point k carries its index as x coordinate and a
\* range of its own, so that a point and a range identify their beam.
MaxPoints == Cutoff + 2
ScanOfMask(m) ==
    [data     |-> [k \in DOMAIN m |->
                      <<k, 0, IF m[k] THEN (k % 5) - 2
                              ELSE IF k % 2 = 0 THEN 3 ELSE -3>>],
     distance |-> [k \in DOMAIN m |-> 10 + k]]
Strides == {0, 2, 3}
Masks ==
    {[k \in 1..L |-> k > a /\ (s = 0 \/ k % s # 0)] :
        L \in 0..MaxPoints, a \in 0..MaxPoints, s \in Strides}
\* one key, or two keys whose second scan is empty or valid
ScanBatches ==
    {<<ScanOfMask(m)>> : m \in Masks}
        \cup {<<ScanOfMask(m), EmptyScan>> : m \in Masks}
        \cup {<<ScanOfMask(m), ScanB(0, 2)>> : m \in Masks}

(***************************************************************************)
(* raw_lidar_process                                                       *)
(***************************************************************************)
\* mask = (z_data >= z_min) & (z_data <= z_max)
InBand(p) == p[3] >= z_min /\ p[3] <= z_max

\* the positions selected by lidar_data[mask][0:970]
Candidates(scan) ==
    LET idx == SelectSeq([k \in 1..Len(scan.data) |-> k],
                         LAMBDA k : InBand(scan.data[k]))
    IN  IF Len(idx) > Cutoff THEN SubSeq(idx, 1, Cutoff) ELSE idx

\* Variant: the index is rounded up instead of truncated.
LinspaceIndex_Ceil(i, M) == (i * (M - 1) + ScanLen - 2) \div (ScanLen - 1)

\* torch.linspace(0, M - 1, num_samples).long(), position i (0-based)
LinspaceIndex(i, M) == (i * (M - 1)) \div (ScanLen - 1)

\* one key of the loop: the resampled points and ranges of one instance
Resample(scan) ==
    LET cand == Candidates(scan)
        M    == Len(cand)
    IN  [data   |-> [i \in 0..(ScanLen - 1) |->
                        scan.data[cand[LinspaceIndex(i, M) + 1]]],
         ranges |-> [i \in 0..(ScanLen - 1) |->
                        scan.distance[cand[LinspaceIndex(i, M) + 1]]]]

\* Indexing an empty filtered tensor raises IndexError.
ResampleRaises(scan) == Len(Candidates(scan)) = 0

\* status "ok": stacked (N, 720) tensors; "empty": torch.Tensor([]) twice;
\* "raise": an exception leaves the function.
raw_lidar_process(raw) ==
    IF Len(raw[1].data) # 0
    THEN IF \E j \in DOMAIN raw : ResampleRaises(raw[j])
         THEN [status |-> "raise", data |-> <<>>, ranges |-> <<>>]
         ELSE [status |-> "ok",
               data   |-> [j \in DOMAIN raw |-> Resample(raw[j]).data],
               ranges |-> [j \in DOMAIN raw |-> Resample(raw[j]).ranges]]
    ELSE [status |-> "empty", data |-> <<>>, ranges |-> <<>>]

(***************************************************************************)
(* lidar_pooling                                                           *)
(***************************************************************************)
\* _scan_tmp.dim() <= 1: the scan is torch.Tensor([]), not a stacked batch
IsDegenerate(scan) == Len(scan) = 0

\* _lidar_history_data[i] with i beyond the rows of the history: IndexError
StackRaises(hist, scan) == Len(hist) # 0 /\ Len(scan) > Len(hist)

\* Variant: only the first instance's history receives the current frame.
StackCurrentFrame_FirstOnly(hist, scan) ==
    [i \in DOMAIN scan |->
        IF i = 1
        THEN IF Len(hist) = 0 THEN <<scan[i]>> ELSE Append(hist[i], scan[i])
        ELSE IF Len(hist) = 0 THEN <<>> ELSE hist[i]]

\* cnn_lidar_tmp: every instance's history with the current frame appended
StackCurrentFrame(hist, scan) ==
    [i \in DOMAIN scan |->
        IF Len(hist) = 0 THEN <<scan[i]>> ELSE Append(hist[i], scan[i])]

\* Variant: the counter is not advanced.
CountFrame_Stuck(tns) == tns

\* _pooling_tns += 1
CountFrame(tns) == tns + 1

\* Variant: nothing is kicked out, the slice keeps all NUM_TP frames.
KickOutFrame0_KeepAll(cnn_lidar_tmp) == cnn_lidar_tmp

\* Variant: the slice [:, 0:NUM_TP-1] drops the newest frame, not the oldest.
KickOutFrame0_DropNewest(cnn_lidar_tmp) ==
    [j \in DOMAIN cnn_lidar_tmp |-> SubSeq(cnn_lidar_tmp[j], 1, NUM_TP - 1)]

\* _lidar_history_data = cnn_lidar_tmp[:, 1:NUM_TP]
KickOutFrame0(cnn_lidar_tmp) ==
    [j \in DOMAIN cnn_lidar_tmp |->
        SubSeq(cnn_lidar_tmp[j], 2,
               IF Len(cnn_lidar_tmp[j]) < NUM_TP THEN Len(cnn_lidar_tmp[j])
               ELSE NUM_TP)]

\* cnn_lidar = cnn_lidar_tmp.reshape(N, -1), one row, at flat position p
Reshape(row, p) == row[(p \div ScanLen) + 1][p % ScanLen]

\* lidar_tmp = cnn_lidar[j, n*720:(n+1)*720], at position s
FrameSlice(row, n, s) == Reshape(row, n * ScanLen + s)

\* the positions of lidar_tmp[i*9:(i+1)*9]
Bin(i) == (i * BinSize)..((i + 1) * BinSize - 1)

\* Variant: the first sample of the bin instead of its minimum.
BinMin_First(row, n, i) == RInt(FrameSlice(row, n, i * BinSize))

\* torch.min(lidar_tmp[i*9:(i+1)*9]) for frame n of the row
BinMin(row, n, i) == RInt(MinOf({FrameSlice(row, n, s) : s \in Bin(i)}))

\* torch.mean(lidar_tmp[i*9:(i+1)*9]) for frame n of the row
BinMean(row, n, i) ==
    Rat(SumOver([s \in Bin(i) |-> FrameSlice(row, n, s)], Bin(i)), BinSize)

\* the row of lidar_avg that frame n's minima / means are written to
MinRow(n) == 2 * n
MeanRow(n) == 2 * n + 1

\* lidar_avg of one instance: torch.zeros((20, 80)) filled by the loops
PoolGrid(row) ==
    [r \in 0..(GridRows - 1) |->
        [i \in 0..(NumBins - 1) |->
            IF \E n \in 0..(NUM_TP - 1) : MinRow(n) = r
            THEN BinMin(row, CHOOSE n \in 0..(NUM_TP - 1) : MinRow(n) = r, i)
            ELSE IF \E n \in 0..(NUM_TP - 1) : MeanRow(n) = r
            THEN BinMean(row, CHOOSE n \in 0..(NUM_TP - 1) : MeanRow(n) = r, i)
            ELSE RZero]]

\* Variant: the affine map followed by a clamp to [-1, 1].
AffineNorm_Clamped(x, lo, hi) ==
    LET y == Rat(2 * (x[1] - lo * x[2]) - (hi - lo) * x[2], (hi - lo) * x[2])
    IN  IF y[1] > y[2] THEN Rat(1, 1) ELSE IF y[1] < -y[2] THEN Rat(-1, 1) ELSE y

\* 2 * (x - lo) / (hi - lo) + (-1)
AffineNorm(x, lo, hi) ==
    Rat(2 * (x[1] - lo * x[2]) - (hi - lo) * x[2], (hi - lo) * x[2])

\* lidar_avg.reshape(1600).repeat(1, 4).reshape(6400), at position k
RepeatFlat(lidar_avg, k) ==
    lidar_avg[(k % GridSize) \div NumBins][(k % GridSize) % NumBins]

\* lidar_avg_map of one instance after the affine step
NormalizeMap(lidar_avg) ==
    [k \in 0..(FeatWidth - 1) |-> AffineNorm(RepeatFlat(lidar_avg, k), s_min, s_max)]

\* the branch taken when _pooling_tns reaches NUM_TP, given lidar_avg_all
Pooled(cnn_lidar_tmp, lidar_avg_all) ==
    [status |-> "ok",
     final |-> [j \in DOMAIN lidar_avg_all |-> NormalizeMap(lidar_avg_all[j])],
     flag |-> TRUE,
     history |-> KickOutFrame0(cnn_lidar_tmp),
     tns |-> NUM_TP - 1,
     grid |-> lidar_avg_all,
     stacked |-> cnn_lidar_tmp]

\* The returned tuple (final, flag, history, tns), the stacked window
\* cnn_lidar_tmp and the grid lidar_avg_all the call built (<<>> when it built
\* none), and whether the call raised.
lidar_pooling(hist, scan, tns) ==
    IF IsDegenerate(scan)
    THEN [status |-> "ok", final |-> <<>>, flag |-> FALSE, history |-> <<>>,
          tns |-> 0, grid |-> <<>>, stacked |-> <<>>]
    ELSE IF StackRaises(hist, scan)
    THEN [status |-> "raise", final |-> <<>>, flag |-> FALSE, history |-> hist,
          tns |-> tns, grid |-> <<>>, stacked |-> <<>>]
    ELSE LET cnn_lidar_tmp == StackCurrentFrame(hist, scan)
         IN  IF CountFrame(tns) = NUM_TP
             THEN Pooled(cnn_lidar_tmp,
                         [j \in DOMAIN scan |-> PoolGrid(cnn_lidar_tmp[j])])
             ELSE [status |-> "ok", final |-> cnn_lidar_tmp, flag |-> FALSE,
                   history |-> cnn_lidar_tmp, tns |-> CountFrame(tns), grid |-> <<>>,
                   stacked |-> cnn_lidar_tmp]

(***************************************************************************)
(* Goal projection: quaternion_to_angle, goal_rotate, subgoal_get.         *)
(* Angles are counted in quarter turns (pi/2), the headings the model's    *)
(* poses take, so that cos and sin are exact.  A quaternion component c is *)
(* stored as the integer e with c = sign(e) * sqrt(|e| / 2), so that the   *)
(* unit quaternions of the four headings are exact: (2,0,0,0) is the       *)
(* identity, (1,0,0,1) a yaw of 90 degrees, (0,0,0,2) of 180 and           *)
(* (-1,0,0,1) of 270.                                                      *)
(***************************************************************************)
\* floor of the square root, by Newton's iteration
RECURSIVE ISqrtFrom(_, _)
ISqrtFrom(n, x) ==
    LET y == (x + n \div x) \div 2
    IN  IF y >= x THEN x ELSE ISqrtFrom(n, y)
ISqrt(n) == IF n = 0 THEN 0 ELSE ISqrtFrom(n, n)

Abs(a) == IF a < 0 THEN -a ELSE a
Sgn(a) == IF a < 0 THEN -1 ELSE IF a > 0 THEN 1 ELSE 0

\* torch.atan2(y, x) for a vector along an axis, in quarter turns
Atan2(y, x) ==
    CASE y = 0 /\ x < 0 -> 2
      [] x = 0 /\ y > 0 -> 1
      [] x = 0 /\ y < 0 -> -1
      [] OTHER -> 0

\* (angles + math.pi) % (2 * math.pi) - math.pi
WrapAngle(a) == ((a + 2) % 4) - 2

\* 2 * a * b for two stored quaternion components (2 * a**2 is QProd2(a, a))
QProd2(a, b) == Sgn(a) * Sgn(b) * ISqrt(Abs(a) * Abs(b))

quaternion_to_angle(quat) ==
    [j \in DOMAIN quat |->
        LET w == quat[j][1]
            x == quat[j][2]
            y == quat[j][3]
            z == quat[j][4]
            r11 == 1 - (QProd2(y, y) + QProd2(z, z))
            r21 == QProd2(x, y) - QProd2(w, z)
        IN  WrapAngle(Atan2(r21, r11))]

Cos(a) == CASE a % 4 = 0 -> 1 [] a % 4 = 2 -> -1 [] OTHER -> 0
Sin(a) == CASE a % 4 = 1 -> 1 [] a % 4 = 3 -> -1 [] OTHER -> 0

\* Variant: the rotation by the opposite angle.
goal_rotate_Reversed(angle, relative_goal) ==
    << relative_goal[1] * Cos(angle) + relative_goal[2] * Sin(angle),
       relative_goal[2] * Cos(angle) - relative_goal[1] * Sin(angle) >>

goal_rotate(angle, relative_goal) ==
    << relative_goal[1] * Cos(angle) - relative_goal[2] * Sin(angle),
       relative_goal[1] * Sin(angle) + relative_goal[2] * Cos(angle) >>

\* torch.sqrt(v), to 1/FP
Sqrt(v) == Rat(ISqrt(v * FP * FP), FP)

\* Variant: each component is cut to [-lookahead, lookahead] on its own.
ClampToLookahead_PerAxis(g, lookahead) ==
    << RInt(IF g[1] > lookahead THEN lookahead
            ELSE IF g[1] < -lookahead THEN -lookahead ELSE g[1]),
       RInt(IF g[2] > lookahead THEN lookahead
            ELSE IF g[2] < -lookahead THEN -lookahead ELSE g[2]) >>

\* subgoal_in_robot_tmp of one row before the affine step: the vector scaled
\* by scale_factor = _lookahead / norm when norm > _lookahead
ClampToLookahead(g, lookahead) ==
    LET norm == Sqrt(g[1] * g[1] + g[2] * g[2])
    IN  IF RLt(RInt(lookahead), norm)
        THEN << Rat(g[1] * lookahead * norm[2], norm[1]),
                Rat(g[2] * lookahead * norm[2], norm[1]) >>
        ELSE << RInt(g[1]), RInt(g[2]) >>

\* Variant: the affine step maps [0, g_max] instead of [g_min, g_max].
GoalNorm_Unsigned(x) == AffineNorm(x, 0, g_max)

\* 2 * (subgoal_in_robot_tmp - g_min) / (g_max - g_min) + (-1), one component
GoalNorm(x) == AffineNorm(x, g_min, g_max)

\* one row of subgoal_get
SubgoalRow(g, lookahead) ==
    LET sub == ClampToLookahead(g, lookahead)
    IN  [k \in 0..(GoalWidth - 1) |-> GoalNorm(sub[k + 1])]

subgoal_get(_goal, _lookahead) ==
    [i \in DOMAIN _goal |-> SubgoalRow(_goal[i], _lookahead)]

\* goal - robot_to_world_pos broadcasts (2, 2) against (N, 2) only when N is 1
\* or 2; the rotation loop reads angle_x_axis[i] for every goal row; and
\* goal_with_z.reshape(num_envs, 3) needs as many rows as instances.
GoalStageRaises(_goal, n) ==
    \/ ~(n = 1 \/ n = Len(_goal))
    \/ Len(_goal) > n
    \/ n * 3 # Len(_goal) * 3

\* Variant: the difference is written into the storage of its first operand
\* (an in-place subtraction), so the result is a view of that tensor.
BroadcastSub_InPlace(a, pos) ==
    [view_of_a |-> TRUE,
     val |-> [i \in DOMAIN a |->
                 LET r == IF Len(pos) = 1 THEN 1 ELSE i
                 IN  << a[i][1] - pos[r][1], a[i][2] - pos[r][2] >>]]

\* a - pos with broadcasting: a new tensor, which shares no storage with a
BroadcastSub(a, pos) ==
    [view_of_a |-> FALSE,
     val |-> [i \in DOMAIN a |->
                 LET r == IF Len(pos) = 1 THEN 1 ELSE i
                 IN  << a[i][1] - pos[r][1], a[i][2] - pos[r][2] >>]]

\* relative_goal after the rotation loop (one row per goal row); goal_rotate
\* writes the rotated row back into relative_goal
RelativeGoal(_goal, pos, quat) ==
    LET angle_x_axis == quaternion_to_angle(quat)
        diff == BroadcastSub(_goal, pos).val
    IN  [i \in DOMAIN _goal |-> goal_rotate(angle_x_axis[i], diff[i])]

\* the module-level tensor goal after the rotation loop: it holds what the
\* loop wrote if relative_goal is a view of it, and is untouched otherwise
GoalAfterRotation(_goal, pos, quat) ==
    IF BroadcastSub(_goal, pos).view_of_a
    THEN RelativeGoal(_goal, pos, quat)
    ELSE _goal

(***************************************************************************)
(* Observation assembly.                                                   *)
(***************************************************************************)
Width(row) == Cardinality(DOMAIN row)
Zeros(w) == [k \in 0..(w - 1) |-> RZero]

\* torch.cat of two rows along dim 1
Cat(a, b) ==
    [k \in 0..(Width(a) + Width(b) - 1) |->
        IF k < Width(a) THEN a[k] ELSE b[k - Width(a)]]

\* Variant: the rows of the pooled feature are taken in reverse instance order.
ConcatObs_Crossed(ped_pos, lidar_data_final, subgoal) ==
    [j \in DOMAIN ped_pos |->
        Cat(Cat(ped_pos[j], lidar_data_final[Len(ped_pos) + 1 - j]), subgoal[j])]

\* obs = torch.cat((ped_pos, lidar_data_final, subgoal), dim=1)
ConcatObs(ped_pos, lidar_data_final, subgoal) ==
    [j \in DOMAIN ped_pos |-> Cat(Cat(ped_pos[j], lidar_data_final[j]), subgoal[j])]

\* torch.cat needs the same number of rows in every block
ConcatRaises(ped_pos, lidar_data_final, subgoal) ==
    ~(Len(ped_pos) = Len(lidar_data_final) /\ Len(ped_pos) = Len(subgoal))

\* transform_to_robot reads rot_matrix[i] for every row of the data, and
\* lidar_to_robot_quat has two rows
VisualizeRaises(lidar_data) == Len(lidar_data) > NumVizFrames

(***************************************************************************)
(* differential_drive_solver.  A command is <<vx, wf>>, two rationals.     *)
(***************************************************************************)
\* Variant: every instance is driven by the command of the first instance.
Command_First(actions, i) == actions[1]

\* vx = actions[i, 0]; wf = actions[i, 1]
Command(actions, i) == actions[i]

\* v_left = vx - (wf * base_width / 2.0)
v_left(vx, wf) == RSub(vx, RDiv(RMul(wf, base_width), RInt(2)))
\* v_right = vx + (wf * base_width / 2.0)
v_right(vx, wf) == RAdd(vx, RDiv(RMul(wf, base_width), RInt(2)))

\* Variant: the wheel speed is not divided by vx_base.
WheelTarget_Unscaled(v) == RMul(RMul(system_gain, v), RInt(joint_base))

\* pl = gain * (v_left / vx_base) * pl_pr_base, and the same for pr
WheelTarget(v) == RMul(RMul(system_gain, RDiv(v, motor_scale)), RInt(joint_base))

\* Variant: the two targets are written to slots 0 and 1.
ActionRow_Shifted(pl, pr) ==
    [k \in 0..(NumJoints - 1) |->
        IF k = LeftSlot - 1 THEN pl ELSE IF k = RightSlot - 1 THEN pr ELSE RZero]

\* action = torch.zeros(7); action[1] = pl; action[2] = pr
ActionRow(pl, pr) ==
    [k \in 0..(NumJoints - 1) |->
        IF k = LeftSlot THEN pl ELSE IF k = RightSlot THEN pr ELSE RZero]

differential_drive_solver(actions) ==
    [i \in DOMAIN actions |->
        LET vx == Command(actions, i)[1]
            wf == Command(actions, i)[2]
        IN  ActionRow(WheelTarget(v_left(vx, wf)), WheelTarget(v_right(vx, wf)))]

\* the policy's raw action components
ActionValues == {-1, 0, 1}
\* the first instance takes every command, the others one of three
FirstCommands == {<<RInt(v), RInt(w)>> : v, w \in ActionValues}
OtherCommands == {<<RInt(1), RInt(-1)>>, <<RInt(0), RInt(1)>>, <<RInt(1), RInt(0)>>}
PolicyActions(n) ==
    {a \in [1..n -> FirstCommands] : \A i \in 2..n : a[i] \in OtherCommands}
\* batch sizes the solver is applied to
DriveBatchSizes == {1, 2}

(***************************************************************************)
(* The simulator's root states.  DefaultPose is default_root_state plus    *)
(* the instance's env origin (env_spacing 5); SimPose(p) is where the      *)
(* physics has moved the robots to.                                        *)
(***************************************************************************)
PoseIds == {1, 2}
\* unit quaternions (cos(h/2), 0, 0, sin(h/2)) of the headings h = 0, 90, 180
\* and 270 degrees, in the stored form
Identity == <<2, 0, 0, 0>>
QuarterTurn == <<1, 0, 0, 1>>
HalfTurn == <<0, 0, 0, 2>>
ThreeQuarterTurn == <<-1, 0, 0, 1>>
YawQuat(h) ==
    CASE h % 4 = 0 -> Identity
      [] h % 4 = 1 -> QuarterTurn
      [] h % 4 = 2 -> HalfTurn
      [] OTHER -> ThreeQuarterTurn

DefaultPos(j) == <<-15 + 5 * (j - 1), 0, 0>>
DefaultQuat(j) == Identity

SimPos(p, j) ==
    CASE p = 1 /\ j = 1 -> <<-5, -3, 0>>
      [] p = 1 /\ j = 2 -> <<-7, 2, 0>>
      [] p = 2 /\ j = 1 -> <<0, 0, 0>>
      [] p = 2 /\ j = 2 -> <<-10, -3, 0>>
      [] OTHER -> <<j, p, 0>>
SimQuat(p, j) == IF (p + j) % 2 = 0 THEN HalfTurn ELSE Identity

(***************************************************************************)
(* State.                                                                  *)
(*   num_envs, root_pos_w, root_quat_w  the scene and the robots' poses    *)
(*   lidar_history_data, pooling_tns    the buffer state CarterEnv keeps   *)
(*   lidar_ranges .. obs                the locals of the last call of     *)
(*                                      _get_observations (<<>> / FALSE    *)
(*                                      when the call did not bind them)   *)
(*   cnn_lidar_tmp, lidar_avg_all       the stacked window and the grid    *)
(*                                      built inside lidar_pooling         *)
(*   outcome                            how the last operation ended       *)
(*   reading                            kind of the reading the last tick  *)
(*                                      took ("none" after other steps)    *)
(*   reset_ids                          env_ids of the last _reset_idx     *)
(*   sweep                              index of the next valid reading's  *)
(*                                      content                            *)
(*   supplied, valid_run                history variables: the valid scans *)
(*                                      supplied since the buffer was last *)
(*                                      emptied (at most NUM_TP), and the  *)
(*                                      length of the run of valid ticks   *)
(*                                      that began on an empty history     *)
(*   streak                             history variable: the number of    *)
(*                                      ticks, up to and including the     *)
(*                                      last one, that took a valid        *)
(*                                      reading in a row (at most NUM_TP)  *)
(*   goal                               the module-level goal tensor       *)
(*   angle_x_axis, relative_goal,       locals of the goal stage of        *)
(*   subgoal                            _get_observations                  *)
(*   actions, controller                self.actions and the joint effort  *)
(*                                      target handed to the articulation  *)
(*   memo                               history variable: the first        *)
(*                                      command the solver was given and   *)
(*                                      the target row it returned         *)
(*   tf_quat, tf_data, tf_translation   the arguments quat, data and       *)
(*                                      translation of one frame change    *)
(*   rot_matrix, data_transformed       what quat_to_rot_matrix and        *)
(*                                      transform_to_robot returned        *)
(*   scan_in, scan_out                  the sensor data raw_lidar_process  *)
(*                                      is applied to on its own, and what *)
(*                                      it returned                        *)
(***************************************************************************)
VARIABLES num_envs, root_pos_w, root_quat_w, lidar_history_data, pooling_tns,
          lidar_ranges, pooling_flag, lidar_data_final, cnn_lidar_tmp,
          lidar_avg_all, obs, outcome, reading, reset_ids, supplied, valid_run,
          sweep, streak, goal, angle_x_axis, relative_goal, subgoal, actions,
          controller, memo, scan_in, scan_out, tf_quat, tf_data,
          tf_translation, rot_matrix, data_transformed

envVars == <<num_envs, root_pos_w, root_quat_w, lidar_history_data, pooling_tns,
             lidar_ranges, pooling_flag, lidar_data_final, cnn_lidar_tmp,
             lidar_avg_all, obs, reading, reset_ids, supplied, valid_run,
             sweep, streak>>
goalVars == <<goal, angle_x_axis, relative_goal, subgoal>>
driveVars == <<actions, controller, memo>>
scanVars == <<scan_in, scan_out>>
frameVars == <<tf_quat, tf_data, tf_translation, rot_matrix, data_transformed>>

vars == <<envVars, outcome, goalVars, driveVars, scanVars, frameVars>>

\* no frame change has been asked for
NoTransform ==
    /\ tf_quat = <<>>
    /\ tf_data = <<>>
    /\ tf_translation = <<>>
    /\ rot_matrix = <<>>
    /\ data_transformed = <<>>

\* number of frames the history holds for instance j
HistLen(hist, j) == IF j \in DOMAIN hist THEN Len(hist[j]) ELSE 0
HistoryEmpty(hist) == \A j \in DOMAIN hist : Len(hist[j]) = 0

\* history-variable helper: the last NUM_TP entries of a log
LastK(s) == IF Len(s) > NUM_TP THEN SubSeq(s, Len(s) - NUM_TP + 1, Len(s)) ELSE s

\* raw_lidar_process has not been applied
NotCalled == [status |-> "none", data |-> <<>>, ranges |-> <<>>]

\* CarterEnv.__init__ and the module-level state, whatever the scene holds
Constructed ==
    /\ lidar_history_data = << <<>> >>
    /\ pooling_tns = 0
    /\ lidar_ranges = <<>>
    /\ pooling_flag = FALSE
    /\ lidar_data_final = <<>>
    /\ cnn_lidar_tmp = <<>>
    /\ lidar_avg_all = <<>>
    /\ obs = <<>>
    /\ outcome = "constructed"
    /\ reading = "none"
    /\ reset_ids = {}
    /\ supplied = <<>>
    /\ valid_run = 0
    /\ sweep = 0
    /\ streak = 0
    /\ angle_x_axis = <<>>
    /\ relative_goal = <<>>
    /\ subgoal = <<>>
    /\ actions = <<>>
    /\ controller = <<>>
    /\ memo = <<>>

\* CarterEnv.__init__ with the robots at their default root state
Init ==
    /\ num_envs \in 1..MaxEnvs
    /\ root_pos_w = [j \in Envs(num_envs) |-> DefaultPos(j)]
    /\ root_quat_w = [j \in Envs(num_envs) |-> DefaultQuat(j)]
    /\ goal = goal_initial
    /\ Constructed
    /\ scan_in = <<>>
    /\ scan_out = NotCalled
    /\ NoTransform

\* The call raised at `where` before binding the locals after lidar_ranges.
RaisedEarly(where, ranges) ==
    /\ outcome' = where
    /\ lidar_ranges' = ranges
    /\ pooling_flag' = FALSE
    /\ lidar_data_final' = <<>>
    /\ cnn_lidar_tmp' = <<>>
    /\ lidar_avg_all' = <<>>
    /\ obs' = <<>>
    /\ angle_x_axis' = <<>>
    /\ relative_goal' = <<>>
    /\ subgoal' = <<>>
    /\ UNCHANGED <<lidar_history_data, pooling_tns, goal>>

\* CarterEnv._get_observations on a tick where the sensor holds a reading of this kind
GetObservations(kind) ==
    \E rp \in {raw_lidar_process(RawBatch(kind, sweep, num_envs))} :
    \E lp \in {lidar_pooling(lidar_history_data, rp.ranges, pooling_tns)} :
    LET ped_pos == [j \in Envs(num_envs) |-> Zeros(PedWidth)]
        rel == RelativeGoal(goal, root_pos_w, root_quat_w)
        sub == subgoal_get(rel, LookaheadRadius)
        NoGoalLocals ==
            /\ angle_x_axis' = <<>>
            /\ relative_goal' = <<>>
            /\ subgoal' = <<>>
            /\ goal' = goal
        GoalLocals ==
            /\ angle_x_axis' = quaternion_to_angle(root_quat_w)
            /\ relative_goal' = rel
            /\ subgoal' = sub
            /\ goal' = GoalAfterRotation(goal, root_pos_w, root_quat_w)
    IN  /\ UNCHANGED <<num_envs, root_pos_w, root_quat_w>>
        /\ UNCHANGED <<driveVars, scanVars, frameVars>>
        /\ reset_ids' = {}
        /\ reading' = kind
        /\ sweep' = IF kind = "valid" THEN (sweep + 1) % NumReadings ELSE sweep
        /\ streak' = IF kind # "valid" THEN 0
                     ELSE IF streak < NUM_TP THEN streak + 1 ELSE streak
        /\ supplied' = CASE rp.status = "ok" -> LastK(Append(supplied, rp.ranges))
                         [] rp.status = "empty" -> <<>>
                         [] OTHER -> supplied
        /\ valid_run' = CASE rp.status # "ok" -> 0
                          [] HistoryEmpty(lidar_history_data) -> 1
                          [] valid_run = 0 -> 0
                          [] valid_run < NUM_TP -> valid_run + 1
                          [] OTHER -> valid_run
        /\ IF rp.status = "raise"
           THEN RaisedEarly("raise_raw_lidar_process", <<>>)
           ELSE IF lp.status = "raise"
           THEN RaisedEarly("raise_lidar_pooling", rp.ranges)
           ELSE /\ lidar_ranges' = rp.ranges
                /\ lidar_history_data' = lp.history
                /\ pooling_tns' = lp.tns
                /\ pooling_flag' = lp.flag
                /\ lidar_data_final' = lp.final
                /\ cnn_lidar_tmp' = lp.stacked
                /\ lidar_avg_all' = lp.grid
                /\ IF rp.status = "ok" /\ VisualizeRaises(rp.data)
                   THEN outcome' = "raise_visualize" /\ obs' = <<>> /\ NoGoalLocals
                   ELSE IF GoalStageRaises(goal, num_envs)
                   THEN outcome' = "raise_goal" /\ obs' = <<>> /\ NoGoalLocals
                   ELSE IF lp.flag
                   THEN IF ConcatRaises(ped_pos, lp.final, sub)
                        THEN outcome' = "raise_concat" /\ obs' = <<>> /\ GoalLocals
                        ELSE /\ outcome' = "returned"
                             /\ obs' = ConcatObs(ped_pos, lp.final, sub)
                             /\ GoalLocals
                   ELSE /\ outcome' = "returned"
                        /\ obs' = [j \in Envs(num_envs) |-> Zeros(NumObservations)]
                        /\ GoalLocals

\* The locals of the previous call are gone once another operation runs.
DropLocals ==
    /\ lidar_ranges' = <<>>
    /\ pooling_flag' = FALSE
    /\ lidar_data_final' = <<>>
    /\ cnn_lidar_tmp' = <<>>
    /\ lidar_avg_all' = <<>>
    /\ obs' = <<>>
    /\ angle_x_axis' = <<>>
    /\ relative_goal' = <<>>
    /\ subgoal' = <<>>

\* env_ids of a reset: None (every instance) or the first instance alone
ResetSets(n) == {Envs(n), {1}}

\* CarterEnv._reset_idx: writes the default root pose of the instances in
\* env_ids back to the simulation; no statement touches the scan history.
ResetIdx(env_ids) ==
    /\ root_pos_w' = [j \in Envs(num_envs) |->
                         IF j \in env_ids THEN DefaultPos(j) ELSE root_pos_w[j]]
    /\ root_quat_w' = [j \in Envs(num_envs) |->
                          IF j \in env_ids THEN DefaultQuat(j) ELSE root_quat_w[j]]
    /\ outcome' = "reset"
    /\ reading' = "none"
    /\ reset_ids' = env_ids
    /\ DropLocals
    /\ UNCHANGED <<num_envs, lidar_history_data, pooling_tns, supplied, valid_run, sweep,
                   streak>>
    /\ UNCHANGED <<goal, driveVars, scanVars, frameVars>>

\* The physics step of the host: the robots move, the environment's buffer
\* state is not touched.
SimStep(p) ==
    /\ root_pos_w' = [j \in Envs(num_envs) |-> SimPos(p, j)]
    /\ root_quat_w' = [j \in Envs(num_envs) |-> SimQuat(p, j)]
    /\ outcome' = "stepped"
    /\ reading' = "none"
    /\ reset_ids' = {}
    /\ DropLocals
    /\ UNCHANGED <<num_envs, lidar_history_data, pooling_tns, supplied, valid_run, sweep,
                   streak>>
    /\ UNCHANGED <<goal, driveVars, scanVars, frameVars>>

Tick == \E kind \in ReadingKinds : GetObservations(kind)
Reset == \E env_ids \in ResetSets(num_envs) : ResetIdx(env_ids)
Step == \E p \in PoseIds : SimStep(p)

Next == Tick \/ Reset \/ Step

Spec == Init /\ [][Next]_vars

(***************************************************************************)
(* raw_lidar_process applied to one sensor reading.                        *)
(***************************************************************************)
InitScan ==
    /\ scan_in \in ScanBatches
    /\ scan_out = NotCalled
    /\ num_envs = Len(scan_in)
    /\ root_pos_w = [j \in Envs(num_envs) |-> DefaultPos(j)]
    /\ root_quat_w = [j \in Envs(num_envs) |-> DefaultQuat(j)]
    /\ goal = goal_initial
    /\ Constructed
    /\ NoTransform

ProcessScan ==
    /\ scan_out' = raw_lidar_process(scan_in)
    /\ outcome' = "processed"
    /\ UNCHANGED <<envVars, goalVars, driveVars, scan_in, frameVars>>

NextScan == ProcessScan

SpecScan == InitScan /\ [][NextScan]_vars

(***************************************************************************)
(* The drive: _pre_physics_step stores the scaled policy action,           *)
(* _apply_action hands the solver's targets to the articulation.           *)
(***************************************************************************)
\* action_scale = motor_scale (CarterEnvCfg)
action_scale == motor_scale

InitDrive ==
    /\ num_envs \in DriveBatchSizes
    /\ root_pos_w = [j \in Envs(num_envs) |-> DefaultPos(j)]
    /\ root_quat_w = [j \in Envs(num_envs) |-> DefaultQuat(j)]
    /\ goal = goal_initial
    /\ Constructed
    /\ scan_in = <<>>
    /\ scan_out = NotCalled
    /\ NoTransform

\* self.actions = self.action_scale * actions.clone()
PrePhysicsStep(a) ==
    /\ actions' = [i \in DOMAIN a |->
                      <<RMul(action_scale, a[i][1]), RMul(action_scale, a[i][2])>>]
    /\ outcome' = "pre_physics_step"
    /\ UNCHANGED <<envVars, goalVars, controller, memo, scanVars, frameVars>>

\* controller = differential_drive_solver(self.actions);
\* self.carter.set_joint_effort_target(target=controller)
ApplyAction ==
    /\ actions # <<>>
    /\ controller' = differential_drive_solver(actions)
    /\ memo' = IF memo = <<>>
               THEN [cmd |-> actions[1],
                     target |-> differential_drive_solver(actions)[1]]
               ELSE memo
    /\ outcome' = "applied"
    /\ UNCHANGED <<envVars, goalVars, actions, scanVars, frameVars>>

PreStep == \E a \in PolicyActions(num_envs) : PrePhysicsStep(a)

NextDrive == PreStep \/ ApplyAction

SpecDrive == InitDrive /\ [][NextDrive]_vars

(***************************************************************************)
(* The goal stage of _get_observations (relative goal, rotation into the   *)
(* body frame, subgoal_get) applied to the poses and goals of GoalPoses    *)
(* and GoalLists.                                                          *)
(***************************************************************************)
\* largest offset, per axis, of the first robot from its goal
MaxOffset == 6
Offsets == (-MaxOffset)..MaxOffset
Headings == 0..3
GoalLists == {goal_initial, << <<3, 4>>, <<0, -6>> >>}
\* <<dx, dy, heading>> of the second robot relative to its goal
SecondPoses == {<<1, 0, 0>>, <<0, -3, 1>>, <<-3, -4, 3>>}

InitGoal ==
    /\ goal \in GoalLists
    /\ num_envs = Len(goal)
    /\ \E dx \in Offsets, dy \in Offsets, h \in Headings, q \in SecondPoses :
          /\ root_pos_w = << <<goal[1][1] + dx, goal[1][2] + dy, 0>>,
                             <<goal[2][1] + q[1], goal[2][2] + q[2], 0>> >>
          /\ root_quat_w = << YawQuat(h), YawQuat(q[3]) >>
    /\ Constructed
    /\ scan_in = <<>>
    /\ scan_out = NotCalled
    /\ NoTransform

\* lines 226-236 of _get_observations
GoalStage ==
    /\ IF GoalStageRaises(goal, num_envs)
       THEN /\ outcome' = "raise_goal"
            /\ UNCHANGED goalVars
       ELSE /\ outcome' = "goal_stage"
            /\ angle_x_axis' = quaternion_to_angle(root_quat_w)
            /\ relative_goal' = RelativeGoal(goal, root_pos_w, root_quat_w)
            /\ subgoal' = subgoal_get(RelativeGoal(goal, root_pos_w, root_quat_w),
                                      LookaheadRadius)
            /\ goal' = GoalAfterRotation(goal, root_pos_w, root_quat_w)
    /\ UNCHANGED <<envVars, driveVars, scanVars, frameVars>>

NextGoal == GoalStage

SpecGoal == InitGoal /\ [][NextGoal]_vars

(***************************************************************************)
(* The frame change of the visualisation: quat_to_rot_matrix followed by   *)
(* transform_to_robot, applied to a batch of quaternions, points and       *)
(* translations (SpecFrame).  A quaternion is given by integer components; *)
(* quat_to_rot_matrix divides it by its norm, so the input <<w, x, y, z>>  *)
(* stands for the unit quaternion of that direction, and the entries of    *)
(* the matrix, which are products of two normalised components, are exact  *)
(* rationals over w*w + x*x + y*y + z*z.                                   *)
(***************************************************************************)
\* largest absolute value of a quaternion component
MaxQuat == 1

\* 2*a*b for two components a / norm and b / norm of q = quat_tmp / norm,
\* where n is the squared norm of quat_tmp
Twice(a, b, n) == Lowest(2 * a * b, n)

\* rot_matrix_tmp of one quaternion
RotMatrixOf(quat_tmp) ==
    LET w == quat_tmp[1]
        x == quat_tmp[2]
        y == quat_tmp[3]
        z == quat_tmp[4]
        n == w * w + x * x + y * y + z * z
        One == RInt(1)
    IN  << << RSub(RSub(One, Twice(y, y, n)), Twice(z, z, n)),
              RSub(Twice(x, y, n), Twice(w, z, n)),
              RAdd(Twice(x, z, n), Twice(w, y, n)) >>,
           << RAdd(Twice(x, y, n), Twice(w, z, n)),
              RSub(RSub(One, Twice(x, x, n)), Twice(z, z, n)),
              RSub(Twice(y, z, n), Twice(w, x, n)) >>,
           << RSub(Twice(x, z, n), Twice(w, y, n)),
              RAdd(Twice(y, z, n), Twice(w, x, n)),
              RSub(RSub(One, Twice(x, x, n)), Twice(y, y, n)) >> >>

quat_to_rot_matrix(quat) == [i \in DOMAIN quat |-> RotMatrixOf(quat[i])]

\* mat.t()
Transpose(mat) == [c \in 1..3 |-> [r \in 1..3 |-> mat[r][c]]]

\* torch.mm of a (points x 3) matrix with a (3 x 3) matrix
Mm(a, b) ==
    [k \in DOMAIN a |->
        [c \in 1..3 |->
            RAdd(RAdd(RMul(a[k][1], b[1][c]), RMul(a[k][2], b[2][c])),
                 RMul(a[k][3], b[3][c]))]]

\* data_rotated + translation_tmp (the translation is broadcast over the points)
AddTranslation(rows, t) ==
    [k \in DOMAIN rows |-> [c \in 1..3 |-> RAdd(rows[k][c], t[c])]]

\* Variant: every instance is rotated with the first instance's matrix.
RotOf_First(rot, i) == rot[1]

\* rot_matrix_tmp = rot_matrix[i]
RotOf(rot, i) == rot[i]

\* rot_matrix[i] or translation[i] does not exist for some i in range(data.size(0))
TransformRaises(data, rot, translation) ==
    Len(data) > Len(rot) \/ Len(data) > Len(translation)

transform_to_robot(data, rot, translation) ==
    [i \in DOMAIN data |->
        AddTranslation(Mm(data[i], Transpose(RotOf(rot, i))), translation[i])]

\* the quaternions of the first instance: every direction with small components
Quats ==
    {q \in [1..4 -> (-MaxQuat)..MaxQuat] : q # <<0, 0, 0, 0>>}
\* the quaternions of the other instances
OtherQuats == {<<1, 0, 0, 0>>, <<0, 0, 0, 1>>, <<1, 1, 1, 1>>}

RPoint(p) == [c \in 1..3 |-> RInt(p[c])]
PointsA == <<RPoint(<<1, 0, 0>>), RPoint(<<2, -1, 3>>)>>
PointsB == <<RPoint(<<0, 1, 0>>), RPoint(<<-2, 0, 5>>)>>
PointsC == <<RPoint(<<0, 0, 1>>), RPoint(<<4, 4, -1>>)>>
\* batches of two and of three instances
PointBatches == {<<PointsA, PointsB>>, <<PointsB, PointsC>>, <<PointsA, PointsB, PointsC>>}

\* lidar_to_robot_pos of _get_observations
MountOffset == <<Rat(13, 500), RZero, Rat(209, 500)>>
Translations ==
    {<< <<RZero, RZero, RZero>>, <<RZero, RZero, RZero>> >>,
     <<MountOffset, MountOffset>>,
     <<RPoint(DefaultPos(1)), RPoint(DefaultPos(2))>>}

InitFrame ==
    /\ \E q \in Quats, r \in OtherQuats : tf_quat = <<q, r>>
    /\ tf_data \in PointBatches
    /\ tf_translation \in Translations
    /\ rot_matrix = <<>>
    /\ data_transformed = <<>>
    /\ num_envs = Len(tf_data)
    /\ root_pos_w = [j \in Envs(num_envs) |-> DefaultPos(j)]
    /\ root_quat_w = [j \in Envs(num_envs) |-> DefaultQuat(j)]
    /\ goal = goal_initial
    /\ Constructed
    /\ scan_in = <<>>
    /\ scan_out = NotCalled

\* rot_matrix = quat_to_rot_matrix(quat);
\* transform_to_robot(data, rot_matrix, translation)
FrameChange ==
    /\ outcome = "constructed"
    /\ rot_matrix' = quat_to_rot_matrix(tf_quat)
    /\ IF TransformRaises(tf_data, quat_to_rot_matrix(tf_quat), tf_translation)
       THEN /\ outcome' = "raise_transform"
            /\ data_transformed' = <<>>
       ELSE /\ outcome' = "transformed"
            /\ data_transformed' =
                   transform_to_robot(tf_data, quat_to_rot_matrix(tf_quat),
                                      tf_translation)
    /\ UNCHANGED <<envVars, goalVars, driveVars, scanVars, tf_quat, tf_data,
                   tf_translation>>

NextFrame == FrameChange

SpecFrame == InitFrame /\ [][NextFrame]_vars

TypeOK ==
    /\ num_envs \in 1..MaxEnvs
    /\ pooling_tns \in 0..NUM_TP
    /\ pooling_flag \in BOOLEAN

(***************************************************************************)
(* Properties.                                                             *)
(***************************************************************************)
TickOutcomes ==
    {"returned", "raise_raw_lidar_process", "raise_lidar_pooling",
     "raise_visualize", "raise_goal", "raise_concat"}

\* lidar_pooling returned to _get_observations on the last tick
PoolingReturned ==
    outcome \in {"returned", "raise_visualize", "raise_goal", "raise_concat"}

DegenerateKinds == {"first_empty", "last_empty", "off_plane"}

\* the frames the history holds for instance j
HistFrames(hist, j) == IF j \in DOMAIN hist THEN hist[j] ELSE <<>>

\* C1: on the r-th tick of a run of valid ticks that began on an empty
\* history, lidar_pooling returns, with pooling_flag false while r < NUM_TP
\* and true from r = NUM_TP on.
C1_WarmUp ==
    (outcome \in TickOutcomes /\ valid_run > 0)
        => (PoolingReturned /\ pooling_flag = (valid_run >= NUM_TP))

\* C2: every instance's history holds between 0 and NUM_TP frames, and right
\* after a tick on which pooling fired it holds exactly NUM_TP - 1 frames with
\* pooling_tns = NUM_TP - 1.
C2_HistoryBounded ==
    /\ \A j \in Envs(num_envs) : HistLen(lidar_history_data, j) \in 0..NUM_TP
    /\ pooling_flag =>
          /\ pooling_tns = NUM_TP - 1
          /\ \A j \in Envs(num_envs) :
                HistLen(lidar_history_data, j) = NUM_TP - 1

C2_Fired == pooling_flag /\ num_envs >= 2 /\ pooling_tns = NUM_TP - 1

\* C3: when pooling fires, the stacked window of instance j is the NUM_TP most
\* recently supplied valid scans of instance j, oldest first, and the history
\* kept is the last NUM_TP - 1 of them, unchanged.
C3_WindowIsRecent ==
    pooling_flag =>
        /\ Len(supplied) = NUM_TP
        /\ \A j \in Envs(num_envs) :
              /\ cnn_lidar_tmp[j] = [t \in 1..NUM_TP |-> supplied[t][j]]
              /\ lidar_history_data[j] =
                    [t \in 1..(NUM_TP - 1) |-> supplied[t + 1][j]]

C3_SlidingWindow ==
    /\ pooling_flag
    /\ num_envs >= 2
    /\ supplied[1][1] # supplied[2][1]
    /\ supplied[1][1] # supplied[1][2]

\* C4: a tick whose reading is degenerate for some instance (empty first scan,
\* empty later scan, or no point in the scan plane) gets through
\* raw_lidar_process and lidar_pooling without raising, with empty results and
\* pooling_flag false.
C4_DegenerateSkipped ==
    reading \in DegenerateKinds =>
        /\ outcome \notin {"raise_raw_lidar_process", "raise_lidar_pooling"}
        /\ lidar_ranges = <<>>
        /\ lidar_data_final = <<>>
        /\ pooling_flag = FALSE

\* C5: a tick with a degenerate reading leaves every instance's frames and
\* the counter pooling_tns as they were before the tick.
C5_DegenerateKeepsHistory ==
    [][reading' \in DegenerateKinds =>
          /\ pooling_tns' = pooling_tns
          /\ \A j \in Envs(num_envs) :
                HistFrames(lidar_history_data', j) = HistFrames(lidar_history_data, j)
      ]_vars

\* C6: _reset_idx(env_ids) empties the history of the instances in env_ids
\* (and zeroes the counter when every instance is reset) and leaves the
\* frames of the other instances unchanged.
C6_ResetClears ==
    [][outcome' = "reset" =>
          /\ \A j \in Envs(num_envs) :
                IF j \in reset_ids'
                THEN HistFrames(lidar_history_data', j) = <<>>
                ELSE HistFrames(lidar_history_data', j) = HistFrames(lidar_history_data, j)
          /\ reset_ids' = Envs(num_envs) => pooling_tns' = 0
      ]_vars

\* C7: every call of _get_observations returns an observation with one row of
\* NumObservations elements per instance, all zero when pooling_flag is false.
C7_ConstantShape ==
    outcome \in TickOutcomes =>
        /\ outcome = "returned"
        /\ Len(obs) = num_envs
        /\ \A j \in Envs(num_envs) :
              /\ Width(obs[j]) = NumObservations
              /\ ~pooling_flag => \A k \in 0..(NumObservations - 1) : obs[j][k] = RZero

\* the goal feature of instance j, from that instance's own pose and goal
GoalFeature(j) ==
    SubgoalRow(goal_rotate(quaternion_to_angle(root_quat_w)[j],
                           << goal[j][1] - root_pos_w[j][1],
                              goal[j][2] - root_pos_w[j][2] >>),
               LookaheadRadius)

\* C8: on a tick where pooling fired and the observation was returned, row j
\* is the zero pedestrian block, then instance j's pooled feature, then
\* instance j's goal feature.
C8_ObsLayout ==
    (outcome = "returned" /\ pooling_flag) =>
        /\ Len(obs) = num_envs
        /\ \A j \in Envs(num_envs) :
              /\ Width(obs[j]) = PedWidth + FeatWidth + GoalWidth
              /\ \A k \in 0..(PedWidth - 1) : obs[j][k] = RZero
              /\ \A k \in 0..(FeatWidth - 1) :
                    obs[j][PedWidth + k] = lidar_data_final[j][k]
              /\ \A k \in 0..(GoalWidth - 1) :
                    obs[j][PedWidth + FeatWidth + k] = GoalFeature(j)[k]

C8_ReadyObservation ==
    /\ outcome = "returned"
    /\ pooling_flag
    /\ num_envs >= 2
    /\ lidar_data_final[1] # lidar_data_final[2]
    /\ GoalFeature(1) # GoalFeature(2)

\* the samples of bin i of a frame
BinSamples(frame, i) == {frame[s] : s \in (BinSize * i)..(BinSize * i + BinSize - 1)}

C10_Feature ==
    pooling_flag =>
        \A j \in Envs(num_envs) :
            /\ Width(lidar_data_final[j]) = 4 * 20 * NumBins
            /\ \A k \in 0..(4 * 20 * NumBins - 1) :
                  LET p == k % (20 * NumBins)
                      g == lidar_avg_all[j][p \div NumBins][p % NumBins]
                      f == lidar_data_final[j][k]
                  IN  /\ 30 * f[1] * g[2] = f[2] * (2 * g[1] - 30 * g[2])
                      /\ (RLeq(RZero, g) /\ RLeq(g, RInt(30)))
                            => (RLeq(RInt(-1), f) /\ RLeq(f, RInt(1)))
                      /\ RLt(RInt(30), g) => RLt(RInt(1), f)
                      /\ RLt(g, RZero) => RLt(f, RInt(-1))

C10_Saturated ==
    /\ pooling_flag
    /\ \E j \in Envs(num_envs), k \in 0..(FeatWidth - 1) :
          RLt(RInt(1), lidar_data_final[j][k])
    /\ \E j \in Envs(num_envs), k \in 0..(FeatWidth - 1) :
          RLt(lidar_data_final[j][k], RZero)

\* C13: a configuration whose number of instances differs from the length of
\* the goal list is rejected when the environment is constructed, so no
\* control tick ever runs (returns or raises) under it.
C13_ShapeCheckedAtInit ==
    num_envs # Len(goal) => outcome \notin TickOutcomes

\* C20: whatever calls were made, the module-level goal tensor holds the
\* values it was created with.
C20_GoalReadOnly ==
    goal = << <<-5, -2>>, <<-10, -2>> >>

\* a call of _get_observations went through the in-place rotation of
\* relative_goal with a robot turned by 180 degrees, and returned
C20_RotatedInPlace ==
    /\ outcome = "returned"
    /\ root_quat_w[1] = <<0, 0, 0, 2>>
    /\ relative_goal # <<>>
    /\ relative_goal[1] = <<root_pos_w[1][1] - goal[1][1], root_pos_w[1][2] - goal[1][2]>>
    /\ relative_goal[1] # <<0, 0>>
    /\ C20_GoalReadOnly

\* C21: the instances move in lock-step.  In every reachable state all
\* instances hold the same number of history frames; after a tick on which
\* lidar_pooling took a valid scan, every instance's newest frame is that
\* instance's frame of this tick; pooling fires with a feature row for every
\* instance and NUM_TP - 1 frames kept for every instance; and a tick on
\* which lidar_pooling raised left no instance with a frame the counter
\* does not count.
C21_LockStep ==
    /\ \A i, j \in Envs(num_envs) :
            HistLen(lidar_history_data, i) = HistLen(lidar_history_data, j)
    /\ (PoolingReturned /\ reading = "valid")
            => \A j \in Envs(num_envs) :
                   /\ HistLen(lidar_history_data, j) >= 1
                   /\ lidar_history_data[j][Len(lidar_history_data[j])] = lidar_ranges[j]
    /\ pooling_flag
            => /\ DOMAIN lidar_data_final = Envs(num_envs)
               /\ \A j \in Envs(num_envs) :
                      HistLen(lidar_history_data, j) = NUM_TP - 1
    /\ outcome = "raise_lidar_pooling"
            => \A j \in Envs(num_envs) :
                   HistLen(lidar_history_data, j) = pooling_tns

\* several instances took a few frames each, every instance its own
C21_SeveralInstancesGrew ==
    /\ num_envs >= 2
    /\ outcome = "returned"
    /\ reading = "valid"
    /\ ~pooling_flag
    /\ pooling_tns = 3
    /\ \A j \in Envs(num_envs) : HistLen(lidar_history_data, j) = 3
    /\ lidar_history_data[1][3] # lidar_history_data[2][3]

\* C24: on every tick, pooling_flag is true exactly when that tick and the
\* NUM_TP - 1 ticks immediately before it all took a valid reading.
C24_FlagIffFullRun ==
    outcome \in TickOutcomes => (pooling_flag = (streak >= NUM_TP))

\* C25: after every call of _get_observations pooling_tns is the number of
\* frames lidar_history_data holds for every instance, and lies in
\* 0..NUM_TP - 1.
C25_CounterIsFrameCount ==
    outcome \in TickOutcomes
        => /\ pooling_tns \in 0..(NUM_TP - 1)
           /\ \A j \in Envs(num_envs) :
                  HistLen(lidar_history_data, j) = pooling_tns

\* valid and failing readings were interleaved: the history holds more frames
\* than the last run of valid ticks supplied
C25_Interleaved ==
    /\ num_envs >= 2
    /\ outcome = "returned"
    /\ streak = 1
    /\ pooling_tns = 3
    /\ \A j \in Envs(num_envs) : HistLen(lidar_history_data, j) = 3

\* C26: a tick that starts in the state the constructor left (history
\* torch.Tensor([[]]), counter 0) and takes a valid reading returns from
\* lidar_pooling with one frame in every instance's history, counter 1 and
\* pooling_flag false, for every number of instances.
C26_FirstTickFromConstructor ==
    [][(lidar_history_data = << <<>> >> /\ pooling_tns = 0 /\ reading' = "valid")
          => /\ outcome' \in {"returned", "raise_visualize", "raise_goal", "raise_concat"}
             /\ \A j \in Envs(num_envs) : HistLen(lidar_history_data', j) = 1
             /\ pooling_tns' = 1
             /\ ~pooling_flag']_vars

(***************************************************************************)
(* raw_lidar_process on its own (SpecScan).                                *)
(***************************************************************************)
\* positions of the raw scan whose z lies in the band
BandPositions(scan) ==
    {k \in 1..Len(scan.data) : scan.data[k][3] >= -2 /\ scan.data[k][3] <= 2}
\* the first Cutoff of them
CandidatePositions(scan) ==
    {k \in BandPositions(scan) :
        Cardinality({k2 \in BandPositions(scan) : k2 < k}) < Cutoff}
\* the c-th candidate, counted from 0
NthCandidate(scan, c) ==
    CHOOSE k \in CandidatePositions(scan) :
        Cardinality({k2 \in CandidatePositions(scan) : k2 < k}) = c

\* C11: raw_lidar_process never raises; when every raw scan is non-empty it
\* returns ScanLen points and ScanLen ranges per instance, and when the raw
\* scans are empty it returns empty point and range arrays.
C11_FixedLength ==
    scan_out.status # "none" =>
        /\ scan_out.status # "raise"
        /\ (\A j \in DOMAIN scan_in : Len(scan_in[j].data) # 0) =>
              /\ scan_out.status = "ok"
              /\ \A j \in DOMAIN scan_in :
                    /\ Width(scan_out.data[j]) = ScanLen
                    /\ Width(scan_out.ranges[j]) = ScanLen
        /\ (\A j \in DOMAIN scan_in : Len(scan_in[j].data) = 0) =>
              /\ scan_out.data = <<>>
              /\ scan_out.ranges = <<>>

\* C12: when raw_lidar_process returns points, output point i of instance j
\* is the candidate (one of the first Cutoff points of the raw scan inside the
\* z band) at index floor(i * (M - 1) / (ScanLen - 1)), M the number of
\* candidates; the indices start at 0, end at M - 1, never decrease and stay
\* in 0..M-1; and output range i is the range of that same beam.
C12_Decimation ==
    scan_out.status = "ok" =>
        \A j \in DOMAIN scan_in :
            LET M == Cardinality(CandidatePositions(scan_in[j]))
                idx == [i \in 0..(ScanLen - 1) |-> (i * (M - 1)) \div (ScanLen - 1)]
            IN  /\ idx[0] = 0
                /\ idx[ScanLen - 1] = M - 1
                /\ \A i \in 0..(ScanLen - 1) :
                      /\ idx[i] \in 0..(M - 1)
                      /\ i > 0 => idx[i - 1] <= idx[i]
                      /\ scan_out.data[j][i] =
                            scan_in[j].data[NthCandidate(scan_in[j], idx[i])]
                      /\ scan_out.ranges[j][i] =
                            scan_in[j].distance[NthCandidate(scan_in[j], idx[i])]

\* two instances; the first has more candidates in the band than the cutoff
\* keeps and a point outside the band among them, the second fewer than
\* ScanLen
C12_Decimated ==
    /\ scan_out.status = "ok"
    /\ Len(scan_in) = 2
    /\ Cardinality(BandPositions(scan_in[1])) > Cutoff
    /\ \E k \in 1..Cutoff : k \notin BandPositions(scan_in[1])
    /\ Cardinality(BandPositions(scan_in[2])) < ScanLen

(***************************************************************************)
(* The drive solver (SpecDrive).                                           *)
(***************************************************************************)
\* C14: the controller handed to the articulation has one row per instance,
\* each of 7 joint slots; slot 1 holds the left and slot 2 the right target
\* of that instance's own command, and every other slot is zero.
C14_ActuatorVector ==
    outcome = "applied" =>
        /\ Len(controller) = num_envs
        /\ \A i \in Envs(num_envs) :
              /\ DOMAIN controller[i] = 0..6
              /\ REq(controller[i][1],
                     WheelTarget(v_left(actions[i][1], actions[i][2])))
              /\ REq(controller[i][2],
                     WheelTarget(v_right(actions[i][1], actions[i][2])))
              /\ \A k \in {0, 3, 4, 5, 6} : controller[i][k] = RZero

C14_TwoRobotsDriven ==
    /\ outcome = "applied"
    /\ num_envs = 2
    /\ ~REq(controller[1][1], controller[1][2])
    /\ ~REq(controller[1][1], controller[2][1])
    /\ ~REq(controller[2][2], RZero)

\* the value 105 * (v + side * 0.2066 * w), i.e.
\* 1.25 * ((v + side * w * 0.4132 / 2) / 0.5) * 42, as a rational
ExpectedTarget(v, w, side) ==
    Lowest(105 * (10000 * v[1] * w[2] + side * 2066 * w[1] * v[2]),
           10000 * v[2] * w[2])
\* x rounded to two decimal places is c / 100
RoundsTo(x, c) == 2 * Abs(100 * x[1] - c * x[2]) < x[2]

\* C15: for every command (v, w) the targets are
\* 1.25 * ((v - w * 0.4132 / 2) / 0.5) * 42 on the left and
\* 1.25 * ((v + w * 0.4132 / 2) / 0.5) * 42 on the right; for (0.5, -0.5) they
\* are 63.35 and 41.65 to two decimal places.
C15_TargetValues ==
    outcome = "applied" =>
        \A i \in Envs(num_envs) :
            /\ REq(controller[i][1], ExpectedTarget(actions[i][1], actions[i][2], -1))
            /\ REq(controller[i][2], ExpectedTarget(actions[i][1], actions[i][2], 1))
            /\ (REq(actions[i][1], Rat(1, 2)) /\ REq(actions[i][2], Rat(-1, 2))) =>
                  /\ RoundsTo(controller[i][1], 6335)
                  /\ RoundsTo(controller[i][2], 4165)

C15_WorkedExample ==
    /\ outcome = "applied"
    /\ \E i \in Envs(num_envs) :
          /\ REq(actions[i][1], Rat(1, 2))
          /\ REq(actions[i][2], Rat(-1, 2))
          /\ RoundsTo(controller[i][1], 6335)

\* C16: equal commands get equal targets, whatever the instance, the other
\* instances' commands and the calls made before (memo is the first call's
\* command and targets); a command with w = 0 gets equal left and right
\* targets, and one with v = 0 gets opposite ones.
C16_PureSolver ==
    outcome = "applied" =>
        \A i \in Envs(num_envs) :
            /\ \A j \in Envs(num_envs) :
                  actions[i] = actions[j] => controller[i] = controller[j]
            /\ actions[i] = memo.cmd => controller[i] = memo.target
            /\ REq(actions[i][2], RZero) => REq(controller[i][1], controller[i][2])
            /\ REq(actions[i][1], RZero) =>
                  REq(controller[i][1], RSub(RZero, controller[i][2]))

\* the second instance repeats, next to a different command of the first
\* instance, the command an earlier call was given
C16_RepeatedCommand ==
    /\ outcome = "applied"
    /\ num_envs = 2
    /\ actions[2] = memo.cmd
    /\ actions[1] # memo.cmd
    /\ controller[1] # controller[2]
    /\ ~REq(actions[2][1], RZero)
    /\ ~REq(actions[2][2], RZero)

(***************************************************************************)
(* The goal stage (SpecGoal).                                              *)
(***************************************************************************)
\* the vector subgoal_get normalized to get row i of subgoal: the inverse of
\* x |-> x / 2, in lowest terms
BeforeNorm(i) ==
    [k \in 1..2 |-> Lowest(2 * subgoal[i][k - 1][1], subgoal[i][k - 1][2])]
SquaredNorm(g) == g[1] * g[1] + g[2] * g[2]

\* C17: a body-frame goal g of magnitude at most 2 is passed through
\* unchanged; a longer one is scaled uniformly (c = g * 2 / rho, rho the
\* magnitude of g taken to 1/FP), keeps its direction (same component signs,
\* positive dot product with g), and has magnitude exactly 2 whenever the
\* magnitude of g is a whole number.
C17_LookaheadClamp ==
    outcome = "goal_stage" =>
        \A i \in DOMAIN relative_goal :
            LET g  == relative_goal[i]
                c  == BeforeNorm(i)
                n2 == SquaredNorm(g)
            IN  IF n2 <= 2 * 2
                THEN \A k \in 1..2 : REq(c[k], RInt(g[k]))
                ELSE /\ \A k \in 1..2 : Sgn(c[k][1]) = Sgn(g[k])
                     /\ c[1][1] * c[2][2] * g[2] = c[2][1] * c[1][2] * g[1]
                     /\ c[1][1] * g[1] * c[2][2] + c[2][1] * g[2] * c[1][2] > 0
                     /\ \A k \in 1..2 :
                           g[k] # 0 =>
                             LET rho == Lowest(2 * Abs(g[k]) * c[k][2], Abs(c[k][1]))
                                 D   == (rho[1] * FP) \div rho[2]
                             IN  /\ D * rho[2] = rho[1] * FP
                                 /\ D * D <= n2 * FP * FP
                                 /\ n2 * FP * FP < (D + 1) * (D + 1)
                                 /\ ISqrt(n2) * ISqrt(n2) = n2 =>
                                       c[k][1] * c[k][1] * n2 =
                                           4 * c[k][2] * c[k][2] * g[k] * g[k]

\* the first robot's goal is clamped from magnitude 5 with both components
\* non-zero, the second robot's goal is within the radius
C17_ClampedAndPassed ==
    /\ outcome = "goal_stage"
    /\ SquaredNorm(relative_goal[1]) = 25
    /\ relative_goal[1][1] * relative_goal[1][2] # 0
    /\ REq(BeforeNorm(1)[1], Rat(2 * relative_goal[1][1], 5))
    /\ SquaredNorm(relative_goal[2]) <= 4
    /\ SquaredNorm(relative_goal[2]) > 0

\* the first robot stands at the origin facing +x and its goal is (-5, -2)
AtOriginFacingX ==
    /\ goal[1] = <<-5, -2>>
    /\ root_pos_w[1] = <<0, 0, 0>>
    /\ root_quat_w[1] = <<2, 0, 0, 0>>

\* C18: each component of the goal feature is half the component of the
\* clamped body-frame goal and lies in [-1, 1]; with the robot at the origin
\* facing +x and the goal (-5, -2) the relative goal is (-5, -2) and the
\* feature is (-0.93, -0.37) to two decimal places.
C18_GoalFeature ==
    outcome = "goal_stage" =>
        /\ \A i \in DOMAIN relative_goal :
              \A k \in 1..2 :
                  LET x == ClampToLookahead(relative_goal[i], 2)[k]
                      f == subgoal[i][k - 1]
                  IN  /\ 2 * f[1] * x[2] = x[1] * f[2]
                      /\ -f[2] <= f[1]
                      /\ f[1] <= f[2]
        /\ AtOriginFacingX =>
              /\ relative_goal[1] = <<-5, -2>>
              /\ RoundsTo(subgoal[1][0], -93)
              /\ RoundsTo(subgoal[1][1], -37)

C18_Scenario ==
    /\ outcome = "goal_stage"
    /\ AtOriginFacingX
    /\ RLt(subgoal[1][0], subgoal[1][1])
    /\ RLt(RInt(-1), subgoal[1][0])

\* the heading, in quarter turns, of a pure yaw quaternion
\* (cos(h/2), 0, 0, sin(h/2)) in the stored form
HeadingOf(q) ==
    CASE q = <<2, 0, 0, 0>> -> 0
      [] q = <<1, 0, 0, 1>> -> 1
      [] q = <<0, 0, 0, 2>> -> 2
      [] q = <<-1, 0, 0, 1>> -> 3
\* v rotated by -h quarter turns
RotatedBack(v, h) ==
    CASE h = 0 -> <<v[1], v[2]>>
      [] h = 1 -> <<v[2], -v[1]>>
      [] h = 2 -> <<-v[1], -v[2]>>
      [] h = 3 -> <<-v[2], v[1]>>
\* the unit vector a robot of heading h faces, and the one to its left
Ahead(h) == CASE h = 0 -> <<1, 0>> [] h = 1 -> <<0, 1>> [] h = 2 -> <<-1, 0>> [] h = 3 -> <<0, -1>>
LeftOf(h) == Ahead((h + 1) % 4)

\* C19: for a robot with heading h in {0, 90, 180, 270} degrees the body-frame
\* goal of instance i is (goal[i] - position of robot i) rotated by -h; a goal
\* at distance d straight ahead maps to (d, 0) and a goal to the left maps
\* to a positive y.
C19_BodyFrame ==
    outcome = "goal_stage" =>
        \A i \in DOMAIN relative_goal :
            LET h == HeadingOf(root_quat_w[i])
                v == <<goal[i][1] - root_pos_w[i][1], goal[i][2] - root_pos_w[i][2]>>
            IN  /\ relative_goal[i] = RotatedBack(v, h)
                /\ \A d \in 1..MaxOffset :
                      /\ v = <<d * Ahead(h)[1], d * Ahead(h)[2]>> =>
                            relative_goal[i] = <<d, 0>>
                      /\ v = <<d * LeftOf(h)[1], d * LeftOf(h)[2]>> =>
                            relative_goal[i][2] > 0

\* the first robot faces +y with its goal straight ahead, the second robot has
\* another heading and another relative goal
C19_QuarterTurnAhead ==
    /\ outcome = "goal_stage"
    /\ HeadingOf(root_quat_w[1]) = 1
    /\ goal[1][1] = root_pos_w[1][1]
    /\ goal[1][2] > root_pos_w[1][2]
    /\ relative_goal[1][2] = 0
    /\ HeadingOf(root_quat_w[2]) = 3
    /\ relative_goal[2] # relative_goal[1]

\* C23: the heading that quaternion_to_angle returns lies in the half-open
\* interval (-pi, pi] (in quarter turns: above -2 and at most 2), and the
\* quaternion (0, 0, 0, 1), whose atan2 is pi, gives +pi.
C23_HalfOpenWrap ==
    outcome = "goal_stage"
        => \A j \in DOMAIN angle_x_axis :
               /\ angle_x_axis[j] > -2
               /\ angle_x_axis[j] <= 2
               /\ (root_quat_w[j] = <<0, 0, 0, 2>> => angle_x_axis[j] = 2)

(***************************************************************************)
(* The frame change on its own (SpecFrame).                                *)
(***************************************************************************)
Cross(a, b) ==
    <<a[2] * b[3] - a[3] * b[2], a[3] * b[1] - a[1] * b[3], a[1] * b[2] - a[2] * b[1]>>

\* the point p turned by the unit quaternion of direction q, by the vector
\* form of the rotation: p + 2w (v x p) + 2 v x (v x p), v the vector part
Turned(q, p) ==
    LET v == <<q[2], q[3], q[4]>>
        n == q[1] * q[1] + q[2] * q[2] + q[3] * q[3] + q[4] * q[4]
        c1 == Cross(v, p)
        c2 == Cross(v, c1)
    IN  [c \in 1..3 |-> Lowest(n * p[c] + 2 * q[1] * c1[c] + 2 * c2[c], n)]

RDot(a, b) == RAdd(RAdd(RMul(a[1], b[1]), RMul(a[2], b[2])), RMul(a[3], b[3]))

Orthonormal(mat) ==
    \A a, b \in 1..3 : RDot(mat[a], mat[b]) = (IF a = b THEN RInt(1) ELSE RZero)

\* C22: quat_to_rot_matrix returns an orthonormal matrix for every
\* instance; transform_to_robot sends point k of instance j to that point
\* turned by instance j's own quaternion plus instance j's own translation;
\* so the point minus the translation has the squared norm of the input
\* point, which with a zero translation is the norm of the output itself.
C22_RigidPerInstance ==
    outcome = "transformed"
        => \A j \in DOMAIN tf_data :
               /\ Orthonormal(rot_matrix[j])
               /\ \A k \in DOMAIN tf_data[j] :
                      LET p == [c \in 1..3 |-> tf_data[j][k][c][1]]
                          out == data_transformed[j][k]
                          back == [c \in 1..3 |-> RSub(out[c], tf_translation[j][c])]
                      IN  /\ out = [c \in 1..3 |->
                                       RAdd(Turned(tf_quat[j], p)[c], tf_translation[j][c])]
                          /\ RDot(back, back) = RDot(tf_data[j][k], tf_data[j][k])
                          /\ (tf_translation[j] = <<RZero, RZero, RZero>>
                                 => RDot(out, out) = RDot(tf_data[j][k], tf_data[j][k]))

\* two instances were turned by different quaternions, the first one by a
\* quaternion that is not of unit length before normalisation and moves
\* the point, with no translation
C22_TwoRotations ==
    /\ outcome = "transformed"
    /\ tf_quat[1] = <<1, 1, 0, 0>>
    /\ tf_quat[2] = <<0, 0, 0, 1>>
    /\ tf_translation[1] = <<RZero, RZero, RZero>>
    /\ data_transformed[1][2] # tf_data[1][2]
    /\ data_transformed[2][2] # tf_data[2][2]
    /\ RDot(data_transformed[1][2], data_transformed[1][2]) = RInt(14)

=============================================================================
